---- MODULE Spec2Model ----
(***************************************************************************)
(* State-machine model of src/src/App.jsx, the "This-or-That" image ranker *)
(* (casual Elo ranking, undo ledger, triple-elimination tournament and the *)
(* deferred deletion sequencer).                                           *)
(*                                                                         *)
(* Conventions                                                             *)
(*  - An item is the record [id, rating, wins, losses, comparisons]; the   *)
(*    name and dataUrl payload never influence the engine and is left out. *)
(*  - JavaScript null is 0 for ids, <<>> for the displayed pair and the    *)
(*    record NoTournament for tState.                                      *)
(*  - ids produced by uid() are unique; they are the integers 1, 2, ...    *)
(*    handed out by nextId.  pairKey sorts the two ids, so a key is the    *)
(*    pair <<smaller, larger>>.                                            *)
(*  - ratings are IEEE doubles in the source.  The model keeps a rating as *)
(*    the expression the code evaluated to obtain it (see updateElo), so   *)
(*    no rounding is involved and equal model ratings are equal doubles.   *)
(*  - items, seenPairs, history, tState, currentPair, deleteArmed,         *)
(*    deletingId and isDragging are the values of the last committed       *)
(*    render.  A call of a state setter is an update: a value, or an       *)
(*    updater function that is applied to the previous value when the      *)
(*    update is rendered.                                                  *)
(*  - The application is mounted with createRoot (React 18).  The updates  *)
(*    of a click or key handler are rendered when the handler returns, and *)
(*    the effects of that render run with it: handler, render and effects  *)
(*    are one action.  The updates made elsewhere (by the pair-selection   *)
(*    effect, by the deletion timer's callback, by the continuation of an  *)
(*    upload, by the load callback of an import and by the handlers of     *)
(*    dragover and dragleave, which are no discrete events) are only       *)
(*    queued: the action Render renders the queue in a later task, and the *)
(*    effects of that render run later still, by the action Flush or ahead *)
(*    of the next render.  Other events are handled in between.            *)
(*  - queue holds the updates not rendered yet, in the order of the calls, *)
(*    and the handler updates made after them to the same hook, which      *)
(*    React applies again, in that order, when it renders the queue; base  *)
(*    holds, per hook, the value the queue is applied to.                  *)
(*  - A call of a state setter made while the component has no update      *)
(*    waiting, that stores the very value the hook holds, schedules no     *)
(*    render (React computes the value at the call): the update is kept in *)
(*    eager, in the hook's queue, with the priority of its caller, and the  *)
(*    next render that has another priority leaves it for a render of its  *)
(*    own.  stale tells that the last render changed the value of a hook:  *)
(*    the component's previous fiber still carries the lanes of the        *)
(*    rendered updates, so the next call of a setter is rendered whatever  *)
(*    it stores.                                                           *)
(*  - the keyboard listener (App.jsx 219-259) is registered by an effect   *)
(*    when currentPair, deleteArmed or deletingId change, so a key press   *)
(*    is handled with the values of the render that registered it: kb.     *)
(*  - removedIds is a history variable: the ids the deletion sequencer has *)
(*    removed from the collection and no import has brought back.          *)
(***************************************************************************)
EXTENDS Integers, Sequences, FiniteSets, TLC

\* ---------------------------------------------------------------- bounds
MaxItems == 3
MaxStored == 2
MaxPlayers == 4
MaxSteps == 3
MaxCasualSteps == 4
MaxTournSteps == 2
MaxPlayed == 5
MaxRoundSteps == 1
MaxFreshSteps == 2
MaxDeletionSteps == 2
MaxSessionSteps == 2

\* ------------------------------------------------------ program constants
K_FACTOR == 32
InitialRating == 1200
EliminationLosses == 3

VARIABLES items, seenPairs, history, tState, currentPair, deleteArmed, deletingId,
          isDragging, base, queue, eager, stale, effects, kb, deletionTimerRef,
          timers, nextId, lastEvent, budget, removedIds

vars == <<items, seenPairs, history, tState, currentPair, deleteArmed, deletingId,
          isDragging, base, queue, eager, stale, effects, kb, deletionTimerRef,
          timers, nextId, lastEvent, budget, removedIds>>

\* ---------------------------------------------------------------- helpers
Range(s) == {s[i] : i \in 1..Len(s)}

Ids(its) == {its[i].id : i \in 1..Len(its)}

RECURSIVE Filter(_, _)
Filter(s, keep) ==
  IF s = <<>> THEN <<>>
  ELSE IF Head(s) \in keep THEN <<Head(s)>> \o Filter(Tail(s), keep)
       ELSE Filter(Tail(s), keep)

RECURSIVE FilterQueue(_, _)
FilterQueue(q, keep) ==
  IF q = <<>> THEN <<>>
  ELSE IF Head(q)[1] \in keep /\ Head(q)[2] \in keep
       THEN <<Head(q)>> \o FilterQueue(Tail(q), keep)
       ELSE FilterQueue(Tail(q), keep)

RECURSIVE FilterItems(_, _)
FilterItems(its, keep) ==
  IF its = <<>> THEN <<>>
  ELSE IF Head(its).id \in keep THEN <<Head(its)>> \o FilterItems(Tail(its), keep)
       ELSE FilterItems(Tail(its), keep)

\* items.find(x => x.id === id); <<>> stands for undefined
Find(its, id) ==
  IF id \in Ids(its)
  THEN <<its[CHOOSE i \in 1..Len(its) :
               its[i].id = id /\ \A j \in 1..(i - 1) : its[j].id # id]>>
  ELSE <<>>

Min2(a, b) == IF a < b THEN a ELSE b
Max2(a, b) == IF a < b THEN b ELSE a

pairKey(aId, bId) == <<Min2(aId, bId), Max2(aId, bId)>>

Count(seen, key) == IF key \in DOMAIN seen THEN seen[key] ELSE 0

NoPairs == [k \in {} |-> 0]

\* shuffle(arr): Fisher-Yates with unconstrained draws yields any permutation
RECURSIVE shuffle(_)
shuffle(arr) ==
  IF arr = <<>> THEN {<<>>}
  ELSE UNION {{<<arr[i]>> \o rest :
                 rest \in shuffle([k \in 1..(Len(arr) - 1) |->
                                     IF k < i THEN arr[k] ELSE arr[k + 1]])} :
              i \in 1..Len(arr)}

\* ---------------------------------------------------------- rating engine
\* A rating is the expression the code evaluated to obtain it:
\*   <<InitialRating>>       the literal 1200 of a new or reset item
\*   <<r, K_FACTOR, s, E>>   r + K_FACTOR * (s - E), s being 1 for the winner
\*                           and 0 for the loser
\* and an expected score E is <<rA, rB>>, which stands for
\* 1 / (1 + Math.pow(10, (rB - rA) / 400)).
Unrated == <<InitialRating>>

expectedScore(rA, rB) == <<rA, rB>>

updateElo(winner, loser) ==
  LET Ea == expectedScore(winner.rating, loser.rating)
      Eb == expectedScore(loser.rating, winner.rating)
  IN  [newWinner |-> [winner EXCEPT !.rating = <<winner.rating, K_FACTOR, 1, Ea>>,
                                    !.wins = winner.wins + 1,
                                    !.comparisons = winner.comparisons + 1],
       newLoser  |-> [loser EXCEPT !.rating = <<loser.rating, K_FACTOR, 0, Eb>>,
                                   !.losses = loser.losses + 1,
                                   !.comparisons = loser.comparisons + 1]]

NewItem(id) == [id |-> id, rating |-> Unrated, wins |-> 0, losses |-> 0,
                comparisons |-> 0]

\* ----------------------------------------------------- casual pair selector
\* [...items].sort((a, b) => a.comparisons - b.comparisons), a stable sort
SortRank(its, i) ==
  1 + Cardinality({j \in 1..Len(its) :
        \/ its[j].comparisons < its[i].comparisons
        \/ its[j].comparisons = its[i].comparisons /\ j < i})

SortByComparisons(its) ==
  [k \in 1..Len(its) |-> its[CHOOSE i \in 1..Len(its) : SortRank(its, i) = k]]

\* Math.max(2, Math.ceil(n * 0.4))
SliceEnd_NoMinimum(n) == (2 * n + 4) \div 5

SliceEnd(n) == Max2(2, (2 * n + 4) \div 5)

Pool(its) == SubSeq(SortByComparisons(its), 1, Min2(Len(its), SliceEnd(Len(its))))

\* The set of values getNextPair() can return for the collection its and
\* the coverage map seen.  An attempt on a seen pair is accepted with
\* probability 0.25, so every pool pair can be returned; the fallback over
\* the whole collection is reached only when some pool pair is seen.  The
\* second index of an attempt is redrawn until it differs from the first
\* only when the pool holds more than one item (App.jsx 131-133).
getNextPair(its, seen) ==
  IF Len(its) < 2 THEN {<<>>}
  ELSE LET pool == Pool(its)
           attempts == {<<pool[ij[1]], pool[ij[2]]>> :
                          ij \in {x \in (1..Len(pool)) \X (1..Len(pool)) :
                                    Len(pool) > 1 => x[1] # x[2]}}
           canFail == \E p \in attempts : Count(seen, pairKey(p[1].id, p[2].id)) > 0
           fallback == {<<its[ab[1]], its[ab[2]]>> :
                          ab \in {x \in (1..Len(its)) \X (1..Len(its)) : x[1] # x[2]}}
       IN  IF canFail THEN attempts \cup fallback ELSE attempts

\* -------------------------------------------------------- tournament engine
NoTournament == [running |-> FALSE]

LossTier(it) == Min2(2, Max2(0, it.losses))

\* ids of the active items of one loss tier, in collection order
TierIds(its, active, tier) ==
  LET pick == {its[i].id : i \in {j \in 1..Len(its) :
                                   its[j].id \in Range(active) /\ LossTier(its[j]) = tier}}
      sel == FilterItems(its, pick)
  IN  [k \in 1..Len(sel) |-> sel[k].id]

RECURSIVE ConsecutivePairs_Overlapping(_)
ConsecutivePairs_Overlapping(s) ==
  IF Len(s) < 2 THEN <<>>
  ELSE <<(<<s[1], s[2]>>)>> \o ConsecutivePairs_Overlapping(Tail(s))

RECURSIVE ConsecutivePairs(_)
ConsecutivePairs(s) ==
  IF Len(s) < 2 THEN <<>>
  ELSE <<(<<s[1], s[2]>>)>> \o ConsecutivePairs(SubSeq(s, 3, Len(s)))

buildPairs(ids) == {ConsecutivePairs(s) : s \in shuffle(ids)}

\* the queues a round advance can build
TierPairs_Reversed(its, active) ==
  {p2 \o p1 \o p0 : p0 \in buildPairs(TierIds(its, active, 0)),
                    p1 \in buildPairs(TierIds(its, active, 1)),
                    p2 \in buildPairs(TierIds(its, active, 2))}

TierPairs(its, active) ==
  {p0 \o p1 \o p2 : p0 \in buildPairs(TierIds(its, active, 0)),
                    p1 \in buildPairs(TierIds(its, active, 1)),
                    p2 \in buildPairs(TierIds(its, active, 2))}

HeadPair(its, mq) ==
  IF mq = <<>> THEN <<>>
  ELSE LET A == Find(its, mq[1][1])
           B == Find(its, mq[1][2])
       IN  IF A = <<>> \/ B = <<>> THEN <<>> ELSE <<A[1], B[1]>>

\* champion detection, activeIds.length <= 1 (App.jsx 163)
ChampionDecided(activeIds) == Len(activeIds) <= 1

\* computeNextTournamentPair(): the set of outcomes [ts, pair], ts being the
\* tournament state it stores and pair the value it returns
computeNextTournamentPair(its, ts) ==
  LET validIds == Ids(its)
      mq == FilterQueue(ts.matchQueue, validIds)
      activeIds == Filter(ts.activeIds, validIds)
      eliminatedIds == Filter(ts.eliminatedIds, validIds)
  IN  IF mq = <<>>
      THEN IF ChampionDecided(activeIds)
           THEN {[ts |-> [ts EXCEPT !.matchQueue = <<>>,
                                    !.championId = IF activeIds = <<>> THEN 0 ELSE activeIds[1],
                                    !.activeIds = activeIds,
                                    !.eliminatedIds = eliminatedIds],
                  pair |-> <<>>]}
           ELSE {[ts |-> [ts EXCEPT !.matchQueue = q,
                                    !.championId = 0,
                                    !.activeIds = activeIds,
                                    !.eliminatedIds = eliminatedIds,
                                    !.currentRound = ts.currentRound + 1],
                  pair |-> HeadPair(its, q)] : q \in TierPairs(its, activeIds)}
      ELSE {[ts |-> [ts EXCEPT !.matchQueue = mq,
                               !.activeIds = activeIds,
                               !.eliminatedIds = eliminatedIds],
             pair |-> HeadPair(its, mq)]}

\* ------------------------------------------------- values and updater bodies
\* tournament branch of pickWinner (App.jsx 288-305): the brackets it stores
TournamentActive_KeepsLoser(ts, updatedItems, winnerId, loserId) ==
  LET loserAfter == Find(updatedItems, loserId)[1]
      newElim == IF loserAfter.losses < EliminationLosses
                    \/ loserId \in Range(ts.eliminatedIds)
                 THEN ts.eliminatedIds
                 ELSE Append(ts.eliminatedIds, loserId)
      newActive == IF winnerId \in Range(ts.activeIds) THEN ts.activeIds
                   ELSE Append(ts.activeIds, winnerId)
  IN  [activeIds |-> newActive, eliminatedIds |-> newElim]

TournamentActive(ts, updatedItems, winnerId, loserId) ==
  LET loserAfter == Find(updatedItems, loserId)[1]
      withoutLoser == Filter(ts.activeIds, Range(ts.activeIds) \ {loserId})
      newElim == IF loserAfter.losses < EliminationLosses
                    \/ loserId \in Range(ts.eliminatedIds)
                 THEN ts.eliminatedIds
                 ELSE Append(ts.eliminatedIds, loserId)
      afterLoser == IF loserAfter.losses < EliminationLosses
                    THEN Append(withoutLoser, loserId)
                    ELSE withoutLoser
      newActive == IF winnerId \in Range(afterLoser) THEN afterLoser
                   ELSE Append(afterLoser, winnerId)
  IN  [activeIds |-> Filter(newActive, Range(newActive) \ Range(newElim)),
       eliminatedIds |-> newElim]

\* const [, ...restQueue] = tState.matchQueue (App.jsx 286)
restQueue(mq) == IF mq = <<>> THEN <<>> ELSE Tail(mq)

\* the callback of items.map in the tournament branch (App.jsx 280-284)
creditMatch(it, winnerId, loserId) ==
  IF it.id = winnerId THEN [it EXCEPT !.wins = it.wins + 1]
  ELSE IF it.id = loserId THEN [it EXCEPT !.losses = it.losses + 1]
       ELSE it

\* tournament branch of pickWinner (App.jsx 277-309) for the closure's items
\* its and tournament state ts: the collection handed to setItems, the ledger
\* entry, and the three fields the updater of setTState stores
pickWinnerTournament(its, ts, pair, winnerId) ==
  LET A == pair[1]
      B == pair[2]
      winner == IF A.id = winnerId THEN A ELSE B
      loser == IF A.id = winnerId THEN B ELSE A
      updatedItems == [i \in 1..Len(its) |-> creditMatch(its[i], winner.id, loser.id)]
      brackets == TournamentActive(ts, updatedItems, winner.id, loser.id)
  IN  [items |-> updatedItems,
       entry |-> [aId |-> A.id, bId |-> B.id, winnerId |-> winnerId,
                  snapshot |-> its, pairKey |-> pairKey(A.id, B.id)],
       match |-> [matchQueue |-> restQueue(ts.matchQueue),
                  activeIds |-> brackets.activeIds,
                  eliminatedIds |-> brackets.eliminatedIds]]

\* setTState(prev => ({ ...(prev || {}), matchQueue, activeIds, eliminatedIds }))
\* (App.jsx 301-306).  Applied to null it yields an object that has these
\* three fields only: seed, currentRound and championId read as undefined.
matchUpdate(prev, m) ==
  IF prev.running
  THEN [prev EXCEPT !.matchQueue = m.matchQueue,
                    !.activeIds = m.activeIds,
                    !.eliminatedIds = m.eliminatedIds]
  ELSE [running |-> TRUE,
        seed |-> <<>>,
        activeIds |-> m.activeIds,
        eliminatedIds |-> m.eliminatedIds,
        matchQueue |-> m.matchQueue,
        currentRound |-> 0,
        championId |-> 0]

\* casual branch of pickWinner (App.jsx 311-328): updateElo is applied to the
\* two item objects held by the displayed pair, the result is written into
\* the closure's items its
pickWinnerCasual(its, pair, winnerId) ==
  LET A == pair[1]
      B == pair[2]
      winner == IF A.id = winnerId THEN A ELSE B
      loser == IF A.id = winnerId THEN B ELSE A
      elo == updateElo(winner, loser)
  IN  [items |-> [i \in 1..Len(its) |->
                    IF its[i].id = elo.newWinner.id THEN elo.newWinner
                    ELSE IF its[i].id = elo.newLoser.id THEN elo.newLoser
                         ELSE its[i]],
       entry |-> [aId |-> A.id, bId |-> B.id, winnerId |-> winnerId,
                  snapshot |-> its, pairKey |-> pairKey(A.id, B.id)]]

\* setSeenPairs(prev => ({ ...prev, [key]: (prev[key] || 0) + 1 }))
recordComparison(seen, key) ==
  [k \in DOMAIN seen \cup {key} |-> IF k = key THEN Count(seen, key) + 1 ELSE seen[k]]

\* the coverage update of undo (App.jsx 338-345)
uncount(seen, key) ==
  IF Count(seen, key) = 0 THEN seen
  ELSE IF seen[key] - 1 <= 0 THEN [k \in DOMAIN seen \ {key} |-> seen[k]]
       ELSE [seen EXCEPT ![key] = seen[key] - 1]

\* the coverage purge of removeItem (App.jsx 371-378)
purge(seen, id) ==
  [k \in {x \in DOMAIN seen : x[1] # id /\ x[2] # id} |-> seen[k]]

\* the tournament update of removeItem (App.jsx 380-387)
deleteParticipant(ts, id) ==
  IF ~ts.running THEN ts
  ELSE [ts EXCEPT !.activeIds = Filter(ts.activeIds, Range(ts.activeIds) \ {id}),
                  !.eliminatedIds = Filter(ts.eliminatedIds, Range(ts.eliminatedIds) \ {id}),
                  !.matchQueue = FilterQueue(ts.matchQueue,
                                   UNION {{m[1], m[2]} : m \in Range(ts.matchQueue)} \ {id}),
                  !.championId = IF ts.championId = id THEN 0 ELSE ts.championId]

\* prev.map(x => ({ ...x, rating: 1200, wins: 0, losses: 0, comparisons: 0 }))
resetStats(its) ==
  [i \in 1..Len(its) |-> [its[i] EXCEPT !.rating = Unrated, !.wins = 0,
                                        !.losses = 0, !.comparisons = 0]]

\* prev.map(x => ({ ...x, wins: 0, losses: 0, comparisons: 0 })) (App.jsx 399)
startStats_KeepsComparisons(its) ==
  [i \in 1..Len(its) |-> [its[i] EXCEPT !.wins = 0, !.losses = 0]]

startStats(its) ==
  [i \in 1..Len(its) |-> [its[i] EXCEPT !.wins = 0, !.losses = 0, !.comparisons = 0]]

\* the tournament state startTournament() stores for a seed order
startState(seedOrder) ==
  [running |-> TRUE,
   seed |-> seedOrder,
   activeIds |-> seedOrder,
   eliminatedIds |-> <<>>,
   matchQueue |-> ConsecutivePairs(seedOrder),
   currentRound |-> 1,
   championId |-> 0]

\* ---------------------------------------------------- React's update queues
Hooks == {"items", "seenPairs", "history", "tState", "currentPair",
          "deleteArmed", "deletingId", "isDragging"}

\* setX(v), a value
Set(h, v) == [h |-> h, op |-> "set", arg |-> v]

\* setX(prev => ...), an updater function; op names its body, arg is what the
\* body takes from the closure of the call
Fn(h, op, arg) == [h |-> h, op |-> op, arg |-> arg]

\* the updates u of one call site: src names the caller, sync tells a
\* handler of a click or a key press (rendered when the handler returns)
\* from every other caller (rendered by a later task)
Tag(u, src, sync) ==
  [i \in 1..Len(u) |-> [h |-> u[i].h, op |-> u[i].op, arg |-> u[i].arg,
                        sync |-> sync, src |-> src]]

\* the update u applied to the previous value v of its hook
Apply(u, v) ==
  CASE u.op = "set" -> u.arg
    [] u.op = "append" -> v \o u.arg
    [] u.op = "filter" -> FilterItems(v, Ids(v) \ {u.arg})
    [] u.op = "resetStats" -> resetStats(v)
    [] u.op = "startStats" -> startStats(v)
    [] u.op = "count" -> recordComparison(v, u.arg)
    [] u.op = "uncount" -> uncount(v, u.arg)
    [] u.op = "purge" -> purge(v, u.arg)
    [] u.op = "push" -> <<u.arg>> \o v
    [] u.op = "slice" -> IF v = <<>> THEN <<>> ELSE Tail(v)
    [] u.op = "match" -> matchUpdate(v, u.arg)
    [] u.op = "remove" -> deleteParticipant(v, u.arg)
    [] u.op = "toggle" -> ~v

\* the updates of q to the hook h, applied in order to the value v
RECURSIVE Fold(_, _, _)
Fold(q, h, v) ==
  IF q = <<>> THEN v
  ELSE Fold(Tail(q), h, IF Head(q).h = h THEN Apply(Head(q), v) ELSE v)

HasUpdate(q, h) == \E i \in 1..Len(q) : q[i].h = h

FirstUpdate(q, h) ==
  q[CHOOSE i \in 1..Len(q) : q[i].h = h /\ \A j \in 1..(i - 1) : q[j].h # h]

LastUpdate(q, h) ==
  q[CHOOSE i \in 1..Len(q) : q[i].h = h /\ \A j \in (i + 1)..Len(q) : q[j].h # h]

\* the values of the committed render
Rendered ==
  [items |-> items, seenPairs |-> seenPairs, history |-> history, tState |-> tState,
   currentPair |-> currentPair, deleteArmed |-> deleteArmed, deletingId |-> deletingId,
   isDragging |-> isDragging]

Commit(r) ==
  /\ items' = r.items
  /\ seenPairs' = r.seenPairs
  /\ history' = r.history
  /\ tState' = r.tState
  /\ currentPair' = r.currentPair
  /\ deleteArmed' = r.deleteArmed
  /\ deletingId' = r.deletingId
  /\ isDragging' = r.isDragging

\* the value, per hook, the queue q is applied to when it is rendered: the
\* value of the render r where the hook has no update queued or a value
\* update first, else the value b held when the first update was queued
Rebase(q, b, r) ==
  [h \in Hooks |-> IF HasUpdate(q, h) /\ FirstUpdate(q, h).op # "set"
                   THEN b[h] ELSE r[h]]

\* null before and null after: the hook's value is the same value
StaysNull(h, old, new) ==
  \/ h = "currentPair" /\ old = <<>> /\ new = <<>>
  \/ h = "tState" /\ ~old.running /\ ~new.running

\* the hooks that hold a boolean, an id or null: equal values are the same
\* value; an array or an object made by a call is a new value
Flags == {"deleteArmed", "deletingId", "isDragging"}

\* the update x, applied to the value v its hook holds, yields that value
Same(x, v) ==
  IF x.h \in Flags THEN x.op = "set" /\ x.arg = v
  ELSE IF x.h \in {"currentPair", "tState"} THEN StaysNull(x.h, v, Apply(x, v))
  ELSE FALSE

\* no update waits for a render and the last render changed no value: the
\* component's fibers carry no lanes
Clean == ~stale /\ queue = <<>>

\* every call of u finds the component clean and stores the value its hook
\* holds: no call schedules a render
Bailout(u) ==
  /\ Clean
  /\ u # <<>>
  /\ \A i \in 1..Len(u) : Same(u[i], Rendered[u[i].h])

\* the updates u are kept in their hooks' queues and nothing is rendered;
\* sync tells the priority of the caller
Keep(u, src, sync) ==
  /\ eager' = eager \o Tag(u, src, sync)
  /\ UNCHANGED <<items, seenPairs, history, tState, currentPair, deleteArmed,
                 deletingId, isDragging, base, queue, stale, effects, kb>>

\* the entries of the sequence e at the indices I, in the order of e
Sub(e, I) ==
  LET nth(k) == CHOOSE i \in I : Cardinality({j \in I : j < i}) = k - 1
  IN  [k \in 1..Cardinality(I) |-> e[nth(k)]]

\* The kept updates e that a render leaves for a later one.  A handler's
\* render passes over the kept updates of dragover and dragleave, a queued
\* render made for no such update does too; a kept update that follows one
\* passed over, in the same hook, stays behind it.
Skipped(e) ==
  Sub(e, {i \in 1..Len(e) : \E j \in 1..i : e[j].h = e[i].h /\ ~e[j].sync})

\* ------------------------------------------------------------------ effects
NoEffects == [pair |-> FALSE, kb |-> FALSE]

\* The pair-selection effect (App.jsx 209-216) run with the values r of a
\* render: the set of update sequences it can make.  In a tournament
\* computeNextTournamentPair() calls setTState on every path (the filtered
\* queue is a new array, App.jsx 197), then its result is handed to
\* setCurrentPair.
Effect(r) ==
  IF r.tState.running
  THEN {<<Set("tState", o.ts), Set("currentPair", o.pair)>> :
          o \in computeNextTournamentPair(r.items, r.tState)}
  ELSE IF r.currentPair = <<>> /\ Len(r.items) >= 2
       THEN {<<Set("currentPair", p)>> : p \in getNextPair(r.items, r.seenPairs)}
       ELSE {<<>>}

\* The closure of the keyboard listener (App.jsx 220-256) registered on a
\* render with the values r.  With no pair displayed or a deletion overlay
\* shown the listener returns before it reads anything else.
NoListener ==
  [items |-> <<>>, seenPairs |-> NoPairs, tState |-> NoTournament,
   currentPair |-> <<>>, deleteArmed |-> FALSE]

Listener(r) ==
  IF r.currentPair = <<>> \/ r.deletingId # 0 THEN NoListener
  ELSE [items |-> r.items, seenPairs |-> r.seenPairs, tState |-> r.tState,
        currentPair |-> r.currentPair, deleteArmed |-> r.deleteArmed]

\* Every event consumes one unit of the exploration budget, which bounds the
\* ledger, the counters and the round number; the expiry of a timer consumes
\* none, the request that started the timer has paid for it.
Tick == budget > 0 /\ budget' = budget - 1

\* the hook h has updates queued and the last update a handler has made to
\* it is an updater function: every render applies the function again, to
\* the same value, and the object it returns is a new one
Reapplied(q, h) ==
  \E i \in 1..Len(q) :
    /\ q[i].h = h /\ q[i].sync /\ q[i].op # "set"
    /\ \A j \in (i + 1)..Len(q) : ~(q[j].h = h /\ q[j].sync)

\* The handler of a click, a key press or a drop has made the updates u.
\* Updates that schedule no render are kept, and that is all.  Else effects
\* left over from an earlier render run first, with that render's values;
\* the render applies u, and only u, to the committed values; its effects
\* run with it.  The updates of u to a hook that has an update queued are
\* queued behind it, to be applied again when the queue is rendered.  A
\* hook counts as changed, for the dependencies of the effects, when u
\* updates it or an updater function queued for it is applied again, unless
\* it was null and stays null.  A handler whose updates store the values
\* the hooks hold, rendered because the component is not clean, changes no
\* value, but the effects left over run.
SyncRender(u, src) ==
  IF Bailout(u) THEN Keep(u, src, TRUE)
  ELSE
  LET r0 == Rendered
      r1 == [h \in Hooks |-> Fold(u, h, r0[h])]
      q0 == Skipped(eager) \o queue
      changed(h) == /\ HasUpdate(u, h) \/ Reapplied(queue, h)
                    /\ ~StaysNull(h, r0[h], r1[h])
      differs(h) == IF h \in Flags THEN r1[h] # r0[h] ELSE changed(h)
      dirtyPair == changed("items") \/ changed("tState") \/ changed("currentPair")
      dirtyKb == \/ changed("currentPair")
                 \/ r1.deleteArmed # r0.deleteArmed
                 \/ r1.deletingId # r0.deletingId
      tagged == Tag(u, src, TRUE)
      kept == SelectSeq(tagged, LAMBDA x : HasUpdate(q0, x.h))
  IN  /\ Commit(r1)
      /\ \E e0 \in (IF effects.pair THEN Effect(r0) ELSE {<<>>}) :
           \E e1 \in (IF dirtyPair THEN Effect(r1) ELSE {<<>>}) :
             LET q == q0 \o kept \o Tag(e0, "effect", FALSE)
                         \o Tag(e1, "effect", FALSE)
             IN  /\ queue' = q
                 /\ base' = Rebase(q, base, r1)
      /\ kb' = IF dirtyKb THEN Listener(r1)
               ELSE IF effects.kb THEN Listener(r0) ELSE kb
      /\ effects' = NoEffects
      /\ eager' = <<>>
      /\ stale' = \E h \in Hooks : differs(h)

\* A caller other than a handler has made the updates u: they are queued,
\* unless they schedule no render
Enqueue(u, src) ==
  IF Bailout(u) THEN Keep(u, src, FALSE)
  ELSE /\ queue' = queue \o Tag(u, src, FALSE)
       /\ base' = Rebase(queue', base, Rendered)
       /\ UNCHANGED <<items, seenPairs, history, tState, currentPair, deleteArmed,
                      deletingId, isDragging, eager, stale, effects, kb>>

\* the ids the queue q removes from the collection (removeItem's filter)
Filtered(q) == {q[i].arg : i \in {j \in 1..Len(q) : q[j].op = "filter"}}

\* the last value update the queue q holds for the hook h
LastSet(q, h) ==
  q[CHOOSE i \in 1..Len(q) :
      /\ q[i].h = h /\ q[i].op = "set"
      /\ \A j \in (i + 1)..Len(q) : ~(q[j].h = h /\ q[j].op = "set")]

\* The render of the queue q on the committed values r0 yields r1: it is a
\* round advance when the tournament state it stores stems from a value of
\* the effect and has another currentRound
IsAdvance(q, r0, r1) ==
  /\ r0.tState.running
  /\ r1.tState.running
  /\ r1.tState.currentRound # r0.tState.currentRound
  /\ \E i \in 1..Len(q) : q[i].h = "tState" /\ q[i].op = "set"
  /\ LastSet(q, "tState").src = "effect"

\* the effect's updates e build a round with no match on the tournament
\* state ts
EmptyRound(e, ts) ==
  /\ e # <<>>
  /\ e[1].h = "tState"
  /\ e[1].arg.matchQueue = <<>>
  /\ e[1].arg.currentRound # ts.currentRound

\* The render of the queued updates, in a task of its own: every hook takes
\* the value its queued updates yield, applied in order to its base value.
\* The effects whose dependencies changed are left to run.  A hook whose
\* last update is a handler's value, rendered before, keeps that very value.
\* The render is made for the updates of dragover and dragleave when the
\* queue holds one, and then it takes the kept ones along.  A kept update of
\* a handler is passed over and rendered at once by a render of its own,
\* ahead of which the effects run: they queue their updates, as in Flush.
Render ==
  /\ effects = NoEffects
  /\ queue # <<>>
  /\ LET r0 == Rendered
         r1 == [h \in Hooks |-> Fold(queue, h, base[h])]
         changed(h) == /\ HasUpdate(queue, h)
                       /\ ~(LastUpdate(queue, h).sync /\ LastUpdate(queue, h).op = "set")
                       /\ ~StaysNull(h, r0[h], r1[h])
         differs(h) == IF h \in Flags THEN r1[h] # r0[h] ELSE changed(h)
         imported == \E i \in 1..Len(queue) :
                       queue[i].src = "import" /\ queue[i].h = "items"
         gone == (Filtered(queue) \cap Ids(r0.items)) \ Ids(r1.items)
         drag == \E i \in 1..Len(queue) : queue[i].src = "drag"
         left == IF drag THEN <<>> ELSE Skipped(eager)
         again == \E i \in 1..Len(eager) : eager[i].sync
         due == [pair |-> changed("items") \/ changed("tState")
                            \/ changed("currentPair"),
                 kb |-> \/ changed("currentPair")
                        \/ r1.deleteArmed # r0.deleteArmed
                        \/ r1.deletingId # r0.deletingId]
     IN  /\ Commit(r1)
         /\ base' = r1
         /\ IF again
            THEN /\ \E e \in (IF due.pair THEN Effect(r1) ELSE {<<>>}) :
                      /\ queue' = left \o Tag(e, "effect", FALSE)
                      /\ IF EmptyRound(e, r1.tState) THEN Tick ELSE UNCHANGED budget
                 /\ kb' = IF due.kb THEN Listener(r1) ELSE kb
                 /\ effects' = NoEffects
                 /\ stale' = FALSE
            ELSE /\ queue' = left
                 /\ effects' = due
                 /\ stale' = \E h \in Hooks : differs(h)
                 /\ UNCHANGED <<kb, budget>>
         /\ lastEvent' = IF IsAdvance(queue, r0, r1) THEN "advance" ELSE "render"
         /\ removedIds' = IF imported THEN (removedIds \cup gone) \ Ids(r1.items)
                          ELSE removedIds \cup gone
  /\ eager' = <<>>
  /\ UNCHANGED <<deletionTimerRef, timers, nextId>>

\* The effects of a queued render run, in a task of their own: the
\* pair-selection effect queues its updates, the keyboard listener is
\* registered for the values of that render.  A round built with no match
\* leaves the queue empty, so the effect builds a round again when that
\* round is rendered: building such a round consumes the exploration budget.
Flush ==
  /\ effects # NoEffects
  /\ \E e \in (IF effects.pair THEN Effect(Rendered) ELSE {<<>>}) :
       /\ queue' = queue \o Tag(e, "effect", FALSE)
       /\ base' = Rebase(queue', base, Rendered)
       /\ IF EmptyRound(e, tState) THEN Tick ELSE UNCHANGED budget
  /\ kb' = IF effects.kb THEN Listener(Rendered) ELSE kb
  /\ effects' = NoEffects
  /\ lastEvent' = "flush"
  /\ UNCHANGED <<items, seenPairs, history, tState, currentPair, deleteArmed,
                 deletingId, isDragging, eager, stale, deletionTimerRef, timers,
                 nextId, removedIds>>

\* ------------------------------------------------------------------- Init
\* The application constructed from a store (useLocalStorage, App.jsx 36-51)
\* that holds the collection its, the coverage map seen and the tournament
\* state ts: the first render is committed, it displays no pair, and all its
\* effects are left to run.  The ledger, the armed flag and the deletion
\* timer are not persisted.  n is the next id uid() hands out, b the
\* exploration budget of the run.
Mounted(its, seen, ts, n, b) ==
  /\ items = its
  /\ seenPairs = seen
  /\ history = <<>>
  /\ tState = ts
  /\ currentPair = <<>>
  /\ deleteArmed = FALSE
  /\ deletingId = 0
  /\ isDragging = FALSE
  /\ base = [items |-> its, seenPairs |-> seen, history |-> <<>>, tState |-> ts,
             currentPair |-> <<>>, deleteArmed |-> FALSE, deletingId |-> 0,
             isDragging |-> FALSE]
  /\ queue = <<>>
  /\ eager = <<>>
  /\ stale = FALSE
  /\ effects = [pair |-> TRUE, kb |-> TRUE]
  /\ kb = NoListener
  /\ deletionTimerRef = 0
  /\ timers = {}
  /\ nextId = n
  /\ lastEvent = "init"
  /\ budget = b
  /\ removedIds = {}

\* a store that holds n <= m unrated items, uploaded in an earlier session,
\* an empty coverage map and no tournament
StoreInit(m, b) ==
  \E n \in 0..m :
    Mounted([i \in 1..n |-> NewItem(i)], NoPairs, NoTournament, n + 1, b)

\* the uploads of the run bring a store of MaxStored items to MaxItems
Init == StoreInit(MaxStored, MaxSteps)

\* ------------------------------------------------------------------ upload
\* The drop zone is rendered for an empty collection (App.jsx 502-507).
\* onDragOver calls setDragging(true)
onDragOver ==
  /\ Len(items) = 0
  /\ Enqueue(<<Set("isDragging", TRUE)>>, "drag")
  /\ lastEvent' = "dragOver"
  /\ Tick
  /\ UNCHANGED <<deletionTimerRef, timers, nextId, removedIds>>

\* onDragLeave calls setDragging(false)
onDragLeave ==
  /\ Len(items) = 0
  /\ Enqueue(<<Set("isDragging", FALSE)>>, "drag")
  /\ lastEvent' = "dragLeave"
  /\ Tick
  /\ UNCHANGED <<deletionTimerRef, timers, nextId, removedIds>>

\* handleDrop (App.jsx 101-107) calls setDragging(false) and starts the
\* reading of the dropped files; the continuation of the reading is Upload
handleDrop ==
  /\ Len(items) = 0
  /\ SyncRender(<<Set("isDragging", FALSE)>>, "drop")
  /\ lastEvent' = "drop"
  /\ Tick
  /\ UNCHANGED <<deletionTimerRef, timers, nextId, removedIds>>

\* filesToItems (App.jsx 65-89), started by the file input or by a drop: the
\* continuation that follows the reading of the k files calls
\* setItems(prev => [...prev, ...newItems])
Upload(k) ==
  /\ nextId + k - 1 <= MaxItems
  /\ Enqueue(<<Fn("items", "append", [i \in 1..k |-> NewItem(nextId + i - 1)])>>,
             "upload")
  /\ nextId' = nextId + k
  /\ lastEvent' = "upload"
  /\ Tick
  /\ UNCHANGED <<deletionTimerRef, timers, removedIds>>

\* ----------------------------------------------------------- pickWinner
\* pickWinner(winnerId) (App.jsx 271-328) called with the closure c (items,
\* seenPairs, tState and currentPair of one render): the update sequences
\* it can make.  The tournament branch leaves the displayed pair to the
\* effect (App.jsx 307) and throws, before any update, when the loser is
\* not in the closure's collection (App.jsx 288, 291); a winner that is not
\* in the collection is credited nothing and stays, or becomes, active
\* (App.jsx 297).  The casual branch stores getNextPair() itself.
pickWinner(c, winnerId) ==
  IF c.currentPair = <<>> THEN {}
  ELSE IF c.tState.running
       THEN IF (IF c.currentPair[1].id = winnerId THEN c.currentPair[2].id
                ELSE c.currentPair[1].id) \in Ids(c.items)
            THEN LET r == pickWinnerTournament(c.items, c.tState, c.currentPair, winnerId)
                 IN  {<<Set("items", r.items),
                        Fn("history", "push", r.entry),
                        Fn("tState", "match", r.match)>>}
            ELSE {}
       ELSE LET r == pickWinnerCasual(c.items, c.currentPair, winnerId)
            IN  {<<Set("items", r.items),
                   Fn("seenPairs", "count", r.entry.pairKey),
                   Fn("history", "push", r.entry),
                   Set("currentPair", p)>> : p \in getNextPair(c.items, c.seenPairs)}

\* the event pickWinner handles with the closure c
PickEvent(c) == IF c.tState.running THEN "match" ELSE "verdict"

\* pickWinner called by a handler with the closure c
PickWinner(c, winnerId) ==
  /\ \E u \in pickWinner(c, winnerId) : SyncRender(u, PickEvent(c))
  /\ lastEvent' = PickEvent(c)
  /\ Tick
  /\ UNCHANGED <<deletionTimerRef, timers, nextId, removedIds>>

\* click on one side of the displayed pair (App.jsx 572-580); the arena is
\* rendered with at least two items, the closure is the committed render's
ClickSide(side) ==
  /\ Len(items) >= 2
  /\ currentPair # <<>>
  /\ PickWinner(Rendered, currentPair[side].id)

\* ------------------------------------------------------ deletion sequencer
\* clearTimeout on the pending timer, then setTimeout for the target
StartDeletion_NoCancel(id) ==
  /\ timers' = timers \cup {id}
  /\ deletionTimerRef' = id

StartDeletion(id) ==
  /\ timers' = (timers \ {deletionTimerRef}) \cup {id}
  /\ deletionTimerRef' = id

\* ArrowLeft / ArrowRight (App.jsx 239-255), handled by the registered
\* listener
KeyArrow(side) ==
  /\ kb.currentPair # <<>>
  /\ IF kb.deleteArmed
     THEN /\ SyncRender(<<Set("deletingId", kb.currentPair[side].id),
                          Set("deleteArmed", FALSE)>>, "armedSelect")
          /\ StartDeletion(kb.currentPair[side].id)
          /\ lastEvent' = "armedSelect"
          /\ Tick
          /\ UNCHANGED <<nextId, removedIds>>
     ELSE PickWinner(kb, kb.currentPair[side].id)

\* Delete key (App.jsx 227-231)
KeyDelete ==
  /\ kb.currentPair # <<>>
  /\ SyncRender(<<Fn("deleteArmed", "toggle", 0)>>, "arm")
  /\ lastEvent' = "arm"
  /\ Tick
  /\ UNCHANGED <<deletionTimerRef, timers, nextId, removedIds>>

\* Escape key while the listener's flag is armed (App.jsx 232-238)
KeyEscape ==
  /\ kb.currentPair # <<>>
  /\ kb.deleteArmed
  /\ SyncRender(<<Set("deleteArmed", FALSE)>>, "disarm")
  /\ lastEvent' = "disarm"
  /\ Tick
  /\ UNCHANGED <<deletionTimerRef, timers, nextId, removedIds>>

\* Gallery onRemove (App.jsx 618-627); lastEvent tells a request that found
\* the timer of another target pending from one that did not
GalleryRemove(id) ==
  /\ id \in Ids(items)
  /\ SyncRender(<<Set("deletingId", id)>>, "galleryRemove")
  /\ StartDeletion(id)
  /\ lastEvent' = IF deletionTimerRef # 0 /\ deletionTimerRef # id
                  THEN "removalReplaced" ELSE "galleryRemove"
  /\ Tick
  /\ UNCHANGED <<nextId, removedIds>>

\* removeItem(id) (App.jsx 369-389): the updates it makes
removeItem(id) ==
  <<Fn("items", "filter", id),
    Fn("seenPairs", "purge", id),
    Fn("tState", "remove", id),
    Set("currentPair", <<>>)>>

\* the callback of the deletion timer (App.jsx 247-251 and 622-626)
TimerFire(id) ==
  /\ id \in timers
  /\ Enqueue(removeItem(id) \o <<Set("deletingId", 0)>>, "timer")
  /\ deletionTimerRef' = 0
  /\ timers' = timers \ {id}
  /\ lastEvent' = "timer"
  /\ UNCHANGED <<nextId, budget, removedIds>>

\* ------------------------------------------------------------ undo ledger
\* the guard of undo() (App.jsx 331-334): undo is refused during a tournament
UndoSupported_Always(ts) == TRUE

UndoSupported(ts) == ~ts.running

\* undo() (App.jsx 330-348).  The Undo button is rendered with the arena
\* (App.jsx 522, at least two items) and is disabled with an empty ledger
\* and during a tournament (App.jsx 546).  A call of undo() during a
\* tournament takes the branch of App.jsx 331-334: the alert is its only
\* effect (lastEvent records it).
Undo ==
  IF UndoSupported(tState)
  THEN /\ Len(items) >= 2
       /\ history # <<>>
       /\ \E p \in getNextPair(items, seenPairs) :
            SyncRender(<<Set("items", history[1].snapshot),
                         Fn("seenPairs", "uncount", history[1].pairKey),
                         Fn("history", "slice", 1),
                         Set("currentPair", p)>>, "undo")
       /\ lastEvent' = "undo"
       /\ Tick
       /\ UNCHANGED <<deletionTimerRef, timers, nextId, removedIds>>
  ELSE /\ lastEvent' = "undoRejected"
       /\ Tick
       /\ UNCHANGED <<items, seenPairs, history, tState, currentPair, deleteArmed,
                      deletingId, isDragging, base, queue, eager, stale, effects, kb,
                      deletionTimerRef, timers, nextId, removedIds>>

\* Skip button (App.jsx 547-549)
Skip ==
  /\ ~tState.running
  /\ Len(items) >= 2
  /\ \E p \in getNextPair(items, seenPairs) :
       SyncRender(<<Set("currentPair", p)>>, "skip")
  /\ lastEvent' = "skip"
  /\ Tick
  /\ UNCHANGED <<deletionTimerRef, timers, nextId, removedIds>>

\* ------------------------------------------------------------------ resets
\* clearRatings() with the confirmation accepted (App.jsx 360-366); the pair
\* it stores is the one getNextPair() draws, in a tournament too
ClearRatings ==
  /\ \E p \in getNextPair(items, seenPairs) :
       SyncRender(<<Fn("items", "resetStats", 0),
                    Set("seenPairs", NoPairs),
                    Set("history", <<>>),
                    Set("currentPair", p)>>, "clearRatings")
  /\ lastEvent' = "clearRatings"
  /\ Tick
  /\ UNCHANGED <<deletionTimerRef, timers, nextId, removedIds>>

\* resetAll() with the confirmation accepted (App.jsx 350-358)
ResetAll ==
  /\ SyncRender(<<Set("items", <<>>),
                  Set("seenPairs", NoPairs),
                  Set("history", <<>>),
                  Set("currentPair", <<>>),
                  Set("tState", NoTournament),
                  Set("deleteArmed", FALSE)>>, "resetAll")
  /\ lastEvent' = "resetAll"
  /\ Tick
  /\ UNCHANGED <<deletionTimerRef, timers, nextId, removedIds>>

\* ------------------------------------------------------ tournament controls
\* startTournament() (App.jsx 392-417); the button is rendered only with at
\* least two items and no tournament
StartTournament ==
  /\ Len(items) >= 2
  /\ ~tState.running
  /\ \E seedOrder \in shuffle([i \in 1..Len(items) |-> items[i].id]) :
       SyncRender(<<Fn("items", "startStats", 0),
                    Set("tState", startState(seedOrder)),
                    Set("currentPair", <<>>)>>, "start")
  /\ lastEvent' = "start"
  /\ Tick
  /\ UNCHANGED <<deletionTimerRef, timers, nextId, removedIds>>

\* resetTournament() with the confirmation accepted (App.jsx 419-424)
ResetTournament ==
  /\ tState.running
  /\ SyncRender(<<Set("tState", NoTournament), Set("currentPair", <<>>)>>,
                "resetTournament")
  /\ lastEvent' = "resetTournament"
  /\ Tick
  /\ UNCHANGED <<deletionTimerRef, timers, nextId, removedIds>>

\* ------------------------------------------------------------------ import
\* The item arrays of the files exportData() (App.jsx 427-442) can have
\* written when n is the next id uid() hands out: an empty collection, the
\* first item unrated, or the first two items after one verdict for item 1.
ExportedItems(n) ==
  {<<>>}
    \cup (IF n > 1 THEN {<<NewItem(1)>>} ELSE {})
    \cup (IF n > 2
          THEN {LET fresh == <<NewItem(1), NewItem(2)>>
                IN  pickWinnerCasual(fresh, fresh, 1).items}
          ELSE {})

\* The parsed payloads importData() is run on.  hasItems, hasSeenPairs and
\* hasTournament tell whether the key is present (an array or an object,
\* both truthy); an absent key reads as undefined.  A payload with a
\* tournament is an export taken right after startTournament().
ImportPayloads(n) ==
  {p \in [hasItems : BOOLEAN, items : ExportedItems(n),
          hasSeenPairs : BOOLEAN, seenPairs : {NoPairs, recordComparison(NoPairs, pairKey(1, 2))},
          hasTournament : BOOLEAN, tournament : {NoTournament, startState(<<1, 2>>)}] :
     /\ ~p.hasItems => p.items = <<>>
     /\ ~p.hasSeenPairs => p.seenPairs = NoPairs
     /\ p.seenPairs # NoPairs => Len(p.items) = 2
     /\ p.hasTournament <=> p.tournament.running
     /\ p.hasTournament => Len(p.items) = 2}

\* if (parsed?.items && parsed?.seenPairs) (App.jsx 451)
ImportAccepted(p) == p.hasItems /\ p.hasSeenPairs

\* what was submitted: a payload that lacks items or seenPairs, a complete
\* payload without a tournament, a complete payload with one
ImportEvent(p) ==
  IF ~(p.hasItems /\ p.hasSeenPairs) THEN "importIncomplete"
  ELSE IF p.hasTournament THEN "importTournament" ELSE "import"

\* importData's reader.onload (App.jsx 448-462) on the parsed payload p; a
\* rejection only raises the alert
Import(p) ==
  /\ IF ImportAccepted(p)
     THEN Enqueue(<<Set("items", p.items),
                    Set("seenPairs", p.seenPairs),
                    Set("tState", IF p.hasTournament THEN p.tournament ELSE NoTournament),
                    Set("history", <<>>),
                    Set("currentPair", <<>>)>>, "import")
     ELSE UNCHANGED <<items, seenPairs, history, tState, currentPair, deleteArmed,
                      deletingId, isDragging, base, queue, eager, stale, effects, kb>>
  /\ lastEvent' = ImportEvent(p)
  /\ Tick
  /\ UNCHANGED <<deletionTimerRef, timers, nextId, removedIds>>

\* ------------------------------------------------------------ specifications
Next ==
  \/ onDragOver
  \/ onDragLeave
  \/ handleDrop
  \/ \E k \in 1..MaxItems : Upload(k)
  \/ \E side \in 1..2 : ClickSide(side)
  \/ \E side \in 1..2 : KeyArrow(side)
  \/ KeyDelete
  \/ KeyEscape
  \/ \E id \in Ids(items) : GalleryRemove(id)
  \/ \E id \in timers : TimerFire(id)
  \/ Undo
  \/ Skip
  \/ ClearRatings
  \/ ResetAll
  \/ StartTournament
  \/ ResetTournament
  \/ \E p \in ImportPayloads(nextId) : Import(p)
  \/ Render
  \/ Flush

Spec == Init /\ [][Next]_vars

\* a casual session: verdicts, skips, deletions and undo
CasualInit == StoreInit(MaxItems, MaxCasualSteps)

CasualNext ==
  \/ \E side \in 1..2 : ClickSide(side)
  \/ \E side \in 1..2 : KeyArrow(side)
  \/ \E id \in Ids(items) : GalleryRemove(id)
  \/ \E id \in timers : TimerFire(id)
  \/ Undo
  \/ Skip
  \/ Render
  \/ Flush

CasualSpec == CasualInit /\ [][CasualNext]_vars

\* the queue a round advance builds when its shuffles leave every tier in
\* collection order
InOrderQueue(its, active) ==
  ConsecutivePairs(TierIds(its, active, 0))
    \o ConsecutivePairs(TierIds(its, active, 1))
    \o ConsecutivePairs(TierIds(its, active, 2))

\* The bracket states [items, ts] that follow the bracket state s by one
\* verdict on its head match, for one of the given sides, and the render of
\* the effect run after it, a round advance among them being one whose
\* shuffles leave the order
WonBy(s, sides) ==
  IF s.ts.matchQueue = <<>> THEN {}
  ELSE LET pair == HeadPair(s.items, s.ts.matchQueue)
       IN  UNION {LET r == pickWinnerTournament(s.items, s.ts, pair, pair[side].id)
                      ts == matchUpdate(s.ts, r.match)
                  IN  {[items |-> r.items, ts |-> o.ts] :
                         o \in {x \in computeNextTournamentPair(r.items, ts) :
                                  \/ x.ts.currentRound = ts.currentRound
                                  \/ x.ts.matchQueue
                                       = InOrderQueue(r.items, x.ts.activeIds)}} :
                  side \in sides}

MatchOutcomes(s) == WonBy(s, {1, 2})

RECURSIVE PlayedFrom(_, _)
PlayedFrom(S, k) ==
  IF k = 0 THEN S ELSE PlayedFrom(UNION {MatchOutcomes(s) : s \in S}, k - 1)

\* the bracket states that follow those of S by k matches, each won by the
\* participant displayed on the left
RECURSIVE LeftPlayedFrom(_, _)
LeftPlayedFrom(S, k) ==
  IF k = 0 THEN S ELSE LeftPlayedFrom(UNION {WonBy(s, {1}) : s \in S}, k - 1)

\* the bracket startTournament() stores for n unrated items when its shuffle
\* draws the collection order; the ids of stored items lie above the ids
\* uid() hands out during the run
FreshBracket(n) ==
  [items |-> [i \in 1..n |-> NewItem(MaxItems + i)],
   ts |-> startState([i \in 1..n |-> MaxItems + i])]

\* The application constructed from a store that holds the items and the
\* tournament state of a tournament of n players in which MaxPlayed matches
\* have been played; one more item can be uploaded during the run.
TournInit ==
  \E n \in 2..MaxPlayers :
    \E s \in PlayedFrom({FreshBracket(n)}, MaxPlayed) :
      Mounted(s.items, NoPairs, s.ts, MaxItems, MaxTournSteps)

\* the events that leave a running tournament running; the drop zone is not
\* rendered while the collection holds an item, an upload comes from the
\* file input
TournNext ==
  \/ \E k \in 1..MaxItems : Upload(k)
  \/ \E side \in 1..2 : ClickSide(side)
  \/ \E side \in 1..2 : KeyArrow(side)
  \/ KeyDelete
  \/ KeyEscape
  \/ \E id \in Ids(items) : GalleryRemove(id)
  \/ \E id \in timers : TimerFire(id)
  \/ Undo
  \/ ClearRatings
  \/ Render
  \/ Flush

TournSpec == TournInit /\ [][TournNext]_vars

\* The application constructed from a store that holds a tournament of n
\* players at any point of its first MaxPlayed matches (TournInit is the
\* case of exactly MaxPlayed matches).
BracketInit ==
  \E n \in 2..MaxPlayers : \E k \in 0..MaxPlayed :
    \E s \in PlayedFrom({FreshBracket(n)}, k) :
      Mounted(s.items, NoPairs, s.ts, MaxItems, MaxTournSteps)

\* the events that play the bracket: verdicts, deletions of participants
\* and the round advance
BracketNext ==
  \/ \E side \in 1..2 : ClickSide(side)
  \/ \E side \in 1..2 : KeyArrow(side)
  \/ \E id \in Ids(items) : GalleryRemove(id)
  \/ \E id \in timers : TimerFire(id)
  \/ Render
  \/ Flush

BracketSpec == BracketInit /\ [][BracketNext]_vars

\* The application constructed from a store that holds a tournament of n
\* players at any point of its first MaxPlayed matches, each of them won by
\* the participant on the left; the run takes MaxRoundSteps events, with
\* either winner.
RoundInit ==
  \E n \in 2..MaxPlayers : \E k \in 0..MaxPlayed :
    \E s \in LeftPlayedFrom({FreshBracket(n)}, k) :
      Mounted(s.items, NoPairs, s.ts, MaxItems, MaxRoundSteps)

RoundNext ==
  \/ \E side \in 1..2 : ClickSide(side)
  \/ \E side \in 1..2 : KeyArrow(side)
  \/ \E id \in Ids(items) : GalleryRemove(id)
  \/ \E id \in timers : TimerFire(id)
  \/ Render
  \/ Flush

RoundSpec == RoundInit /\ [][RoundNext]_vars

\* The application constructed from a store that holds a tournament of n
\* players that has just been started: verdicts fill the ledger, which undo
\* reads.
FreshInit ==
  \E n \in 2..MaxPlayers :
    Mounted(FreshBracket(n).items, NoPairs, FreshBracket(n).ts, MaxItems, MaxFreshSteps)

FreshNext ==
  \/ \E side \in 1..2 : ClickSide(side)
  \/ \E side \in 1..2 : KeyArrow(side)
  \/ Undo
  \/ Render
  \/ Flush

FreshSpec == FreshInit /\ [][FreshNext]_vars

\* the deletion sequencer in a casual session: removal requests from the
\* gallery and from the armed arrow keys, and the expiry of their timers
DeletionInit == StoreInit(MaxItems, MaxDeletionSteps)

DeletionNext ==
  \/ \E side \in 1..2 : KeyArrow(side)
  \/ KeyDelete
  \/ KeyEscape
  \/ \E id \in Ids(items) : GalleryRemove(id)
  \/ \E id \in timers : TimerFire(id)
  \/ Render
  \/ Flush

DeletionSpec == DeletionInit /\ [][DeletionNext]_vars

\* a session that rates items and starts a tournament on them
SessionInit == StoreInit(MaxItems, MaxSessionSteps)

SessionNext ==
  \/ \E side \in 1..2 : ClickSide(side)
  \/ Skip
  \/ StartTournament
  \/ Render
  \/ Flush

SessionSpec == SessionInit /\ [][SessionNext]_vars

\* ------------------------------------------------------------ observations
Running == tState.running
Active == IF Running THEN Range(tState.activeIds) ELSE {}
Eliminated == IF Running THEN Range(tState.eliminatedIds) ELSE {}
QueueIds == IF Running THEN UNION {{m[1], m[2]} : m \in Range(tState.matchQueue)} ELSE {}
ItemOf(its, id) == Find(its, id)[1]

\* ------------------------------------------------------------------ claims

\* C1: a tournament on n >= 2 items in which every queued match is resolved
\* and rounds advance automatically terminates with a champion.  Termination
\* needs every round advance (all seeded items still present) to leave
\* either a queued match or a champion: a state with neither admits no
\* verdict, and the effect can only build an empty round again, for ever.
C1_TournamentTerminates ==
  (Running /\ Ids(items) = Range(tState.seed) /\ lastEvent = "advance")
    => (tState.matchQueue # <<>> \/ tState.championId # 0)

\* C2: while a tournament is running an item is in eliminatedIds if and only
\* if its losses counter is exactly 3.
C2_EliminatedIffThreeLosses ==
  Running => \A i \in 1..Len(items) :
               (items[i].id \in Eliminated) <=> (items[i].losses = EliminationLosses)

\* C3: in every tournament state activeIds and eliminatedIds share no id.
C3_ActiveEliminatedDisjoint == Running => Active \cap Eliminated = {}

\* C3 witness: a match has just been resolved, its loser has been eliminated
\* by it and other participants stay active
C3_Witness ==
  /\ Running /\ lastEvent = "match" /\ Active # {} /\ history # <<>>
  /\ \E x \in {history[1].aId, history[1].bId} \ {history[1].winnerId} :
       x \in Eliminated

\* every id of a queued match is a member of activeIds
QueueWithinActive == Running => QueueIds \subseteq Active

\* C4: in every tournament state both ids of every queued match are members
\* of activeIds, and no queued match references an eliminated participant
\* or a participant that is not in the collection (a deleted one).
C4_QueueIdsActive ==
  Running => /\ QueueIds \subseteq Active
             /\ QueueIds \cap Eliminated = {}
             /\ QueueIds \subseteq Ids(items)

\* C5: whenever the queue is empty and exactly one active id remains, the
\* round advance (the render of the tournament state the effect has stored
\* last) sets championId to that id; and whenever a champion is set the
\* queue is empty and the champion is the only active id.
C5_Champion ==
  [][/\ (lastEvent' \in {"render", "advance"} /\ tState.running
           /\ tState.matchQueue = <<>> /\ Len(tState.activeIds) = 1
           /\ HasUpdate(queue, "tState")
           /\ LastUpdate(queue, "tState").src = "effect")
          => tState'.championId = tState.activeIds[1]
     /\ (tState'.running /\ tState'.championId # 0)
          => (tState'.matchQueue = <<>> /\ tState'.activeIds = <<tState'.championId>>)]_vars

\* C6: an id in eliminatedIds is, after any step of the same tournament,
\* neither active nor queued, and it leaves eliminatedIds only by leaving
\* the collection.
C6_EliminatedStaysOut ==
  [][\A id \in Eliminated :
       tState'.running =>
         /\ id \notin Range(tState'.activeIds)
         /\ \A k \in 1..Len(tState'.matchQueue) :
              id # tState'.matchQueue[k][1] /\ id # tState'.matchQueue[k][2]
         /\ (id \in Range(tState'.eliminatedIds) \/ id \notin Ids(items'))]_vars

\* C7: undo directly after a casual verdict is its exact inverse.  The
\* collection undo restores is the snapshot of the newest ledger entry, so
\* the claim is that the entry a casual verdict pushes carries the collection
\* as it was immediately before the verdict, and that the undo which follows
\* it restores that snapshot, pops exactly that entry and lowers the coverage
\* count of its pair by exactly 1 (an absent key counts 0).
C7_UndoInverse ==
  [][/\ lastEvent' = "verdict" => history'[1].snapshot = items
     /\ (lastEvent = "verdict" /\ lastEvent' = "undo") =>
          /\ items' = history[1].snapshot
          /\ history' = Tail(history)
          /\ Count(seenPairs', history[1].pairKey)
               = Count(seenPairs, history[1].pairKey) - 1
          /\ \A k \in (DOMAIN seenPairs \cup DOMAIN seenPairs') \ {history[1].pairKey} :
               Count(seenPairs', k) = Count(seenPairs, k)]_vars

\* C8: only casual verdicts add ledger entries; a verdict resolved while a
\* tournament is running leaves the ledger unchanged.
C8_LedgerCasualOnly ==
  [][(tState.running /\ lastEvent' = "match") => history' = history]_vars

\* C9: an undo attempted while a tournament is running is rejected and
\* changes neither the collection, the coverage map, the ledger, the
\* tournament state nor the displayed pair.
C9_UndoRejectedInTournament ==
  [][(tState.running /\ lastEvent' \in {"undo", "undoRejected"}) =>
       /\ lastEvent' = "undoRejected"
       /\ UNCHANGED <<items, seenPairs, history, tState, currentPair>>]_vars

\* C9 witness: an undo was rejected in a tournament whose ledger is not empty
C9_Witness == Running /\ lastEvent = "undoRejected" /\ history # <<>>

\* C10: every casual verdict raises, against the collection just before it,
\* the winner's wins by 1, the loser's losses by 1 and the comparisons of
\* both by 1.
C10_VerdictCounts ==
  [][(lastEvent' = "verdict"
        /\ {history'[1].aId, history'[1].bId} \subseteq Ids(items) \cap Ids(items')) =>
       LET e == history'[1]
           w == e.winnerId
           l == IF e.aId = w THEN e.bId ELSE e.aId
       IN  /\ ItemOf(items', w).wins = ItemOf(items, w).wins + 1
           /\ ItemOf(items', l).losses = ItemOf(items, l).losses + 1
           /\ ItemOf(items', w).comparisons = ItemOf(items, w).comparisons + 1
           /\ ItemOf(items', l).comparisons = ItemOf(items, l).comparisons + 1]_vars

\* C11: whenever no tournament is running every item of the collection has
\* comparisons = wins + losses, also after a tournament that was started and
\* then reset.
C11_ComparisonsAreWinsPlusLosses ==
  ~Running => \A i \in 1..Len(items) :
                items[i].comparisons = items[i].wins + items[i].losses

\* the keys of the unordered pairs of the collection its
PairKeys(its) == {pairKey(x[1], x[2]) : x \in {y \in Ids(its) \X Ids(its) : y[1] # y[2]}}

\* the coverage map of the state, the empty map and the map that marks
\* every pair of the collection as seen
CoverageMaps(its) == {seenPairs, NoPairs, [k \in PairKeys(its) |-> 1]}

\* C12: casual pair selection returns null exactly when the collection has
\* fewer than 2 items; with 2 or more items it returns, whatever the draws
\* and the coverage map, a pair of two different items of the collection.
\* Checked for the collection of every reachable state and of every keyboard
\* closure.
C12_PairSelection ==
  \A its \in {items, kb.items} : \A seen \in CoverageMaps(its) :
    LET R == getNextPair(its, seen)
    IN  /\ R # {}
        /\ Len(its) < 2 => R = {<<>>}
        /\ Len(its) >= 2 =>
             \A p \in R : /\ p # <<>>
                          /\ p[1] \in Range(its) /\ p[2] \in Range(its)
                          /\ p[1].id # p[2].id

\* C12 witness: Skip drew, from a collection of at least two items, a pair
\* that was already seen (an accepted repeat or the fallback draw)
C12_Witness ==
  /\ lastEvent = "skip" /\ Len(items) >= 2 /\ currentPair # <<>>
  /\ Count(seenPairs, pairKey(currentPair[1].id, currentPair[2].id)) > 0

\* C13: at most one deletion is pending at any time.  A removal request
\* leaves exactly the timer of its own target pending, so a request made
\* while the timer of another target is pending cancels that timer; the
\* callback of a timer queues the removal of its own target only, and the
\* render of a queue that stores no collection removes the targets queued
\* and no other item (the first target stays in the collection).
C13_SinglePendingDeletion ==
  [][/\ Cardinality(timers') <= 1
     /\ lastEvent' \in {"galleryRemove", "removalReplaced", "armedSelect"} =>
          (deletingId' # 0 /\ timers' = {deletingId'})
     /\ lastEvent' = "removalReplaced" =>
          (timers # {} /\ timers \cap timers' = {})
     /\ lastEvent' = "timer" =>
          /\ Cardinality(timers) = 1 /\ timers' = {}
          /\ Filtered(queue') \subseteq Filtered(queue) \cup timers
     /\ (lastEvent' \in {"render", "advance"}
           /\ \A i \in 1..Len(queue) : ~(queue[i].h = "items" /\ queue[i].op = "set")) =>
          Ids(items) \ Filtered(queue) \subseteq Ids(items')]_vars

\* C13 witness: a second removal request has replaced the pending deletion
\* of another item, which is still in the collection
C13_Witness ==
  /\ lastEvent = "removalReplaced" /\ Cardinality(timers) = 1
  /\ Cardinality(Ids(items) \ timers) >= 1

\* C14: while the delete-armed flag is set, a selection of either side of
\* the displayed pair (arrow key or click) registers no verdict: items,
\* coverage map, ledger and tournament state are unchanged; it starts the
\* deferred removal of the selected item and disarms the flag.
C14_ArmedSelectionNoVerdict ==
  [][(deleteArmed /\ lastEvent' \in {"verdict", "match", "armedSelect"}) =>
       /\ lastEvent' = "armedSelect"
       /\ UNCHANGED <<items, seenPairs, history, tState>>
       /\ deletingId' # 0 /\ timers' = {deletingId'}
       /\ ~deleteArmed']_vars

\* C15: when the pending deletion of id X expires, in the resulting state
\* (the render of the updates the timer's callback has queued) X is absent
\* from the collection, from every coverage key, from activeIds,
\* eliminatedIds and every queued match, championId is not X, the pending
\* marker is cleared and the displayed pair is cleared; the items and the
\* coverage records that do not involve X are unchanged.  The render judged
\* is one of the timer's five updates and of updates of the pair-selection
\* effect only, so no user event has acted between expiry and render.
C15_ExpiryRemoves ==
  [][\A i \in 1..Len(queue) :
       (/\ lastEvent' \in {"render", "advance"} /\ queue[i].op = "filter"
        /\ \A j \in 1..Len(queue) :
             \/ queue[j].src = "effect"
             \/ queue[j].src = "timer" /\ i <= j /\ j <= i + 4) =>
         LET X == queue[i].arg
         IN  /\ X \notin Ids(items')
             /\ FilterItems(items', Ids(items) \ {X}) = FilterItems(items, Ids(items) \ {X})
             /\ \A k \in DOMAIN seenPairs' : k[1] # X /\ k[2] # X
             /\ \A k \in DOMAIN seenPairs :
                  (k[1] # X /\ k[2] # X) =>
                    (k \in DOMAIN seenPairs' /\ seenPairs'[k] = seenPairs[k])
             /\ tState'.running =>
                  /\ X \notin Range(tState'.activeIds)
                  /\ X \notin Range(tState'.eliminatedIds)
                  /\ \A m \in Range(tState'.matchQueue) : m[1] # X /\ m[2] # X
                  /\ tState'.championId # X
             /\ deletingId' = 0
             /\ currentPair' = <<>>]_vars

\* C16: an import whose payload lacks items or lacks seenPairs is rejected
\* wholesale: items, coverage map, tournament state, ledger and displayed
\* pair are unchanged.  An accepted import replaces items and coverage by
\* the payload's, sets the tournament state to the payload's tournament, or
\* to null when the payload has none, and empties the ledger: the render of
\* the updates of an import (the five updates importData makes in a row)
\* stores these values, when no update of a later user event or timer is
\* rendered with them.
C16_ImportAllOrNothing ==
  [][/\ lastEvent' = "importIncomplete" =>
          UNCHANGED <<items, seenPairs, tState, history, currentPair>>
     /\ \A i \in 1..Len(queue) :
          (/\ lastEvent' \in {"render", "advance"}
           /\ queue[i].src = "import" /\ queue[i].h = "items"
           /\ \A j \in (i + 5)..Len(queue) : queue[j].src = "effect") =>
            /\ items' = queue[i].arg
            /\ seenPairs' = queue[i + 1].arg
            /\ tState' = queue[i + 2].arg
            /\ history' = <<>>]_vars

\* C17: starting a tournament on n >= 2 items yields wins, losses and
\* comparisons 0 for every item, activeIds equal to seed and a permutation of
\* all item ids, no eliminated id, currentRound 1, no champion, and a queue
\* of n \div 2 matches pairing seed[1] with seed[2], seed[3] with seed[4],
\* and so on, the last id being unmatched when n is odd.
C17_StartTournament ==
  [][lastEvent' = "start" =>
       LET n == Len(items)
           ts == tState'
       IN  /\ n >= 2 /\ Len(items') = n
           /\ \A i \in 1..n : /\ items'[i].id = items[i].id
                              /\ items'[i].wins = 0
                              /\ items'[i].losses = 0
                              /\ items'[i].comparisons = 0
           /\ ts.running
           /\ ts.activeIds = ts.seed
           /\ Len(ts.seed) = n /\ Range(ts.seed) = Ids(items)
           /\ ts.eliminatedIds = <<>>
           /\ ts.currentRound = 1
           /\ ts.championId = 0
           /\ Len(ts.matchQueue) = n \div 2
           /\ \A k \in 1..(n \div 2) :
                ts.matchQueue[k] = <<ts.seed[2 * k - 1], ts.seed[2 * k]>>]_vars

\* C17 witness: a tournament was started on three items, two of which had
\* been rated by a verdict
C17_Witness ==
  /\ lastEvent = "start" /\ Len(items) = 3
  /\ \E i \in 1..Len(items) : items[i].rating # Unrated

\* C18: whenever a round advance finds an empty queue and more than one
\* active id, the round it builds has a non-empty matchQueue and
\* currentRound grows by exactly 1; no round is built with zero matches.
\* A round advance is the render of a tournament state of the effect that
\* has another currentRound.
C18_NoEmptyRound ==
  [][lastEvent' = "advance" =>
       /\ tState'.currentRound = tState.currentRound + 1
       /\ tState'.matchQueue # <<>>]_vars

\* the loss tier, in the collection its, of the participant id
TierOf(its, id) == LossTier(ItemOf(its, id))

\* the tournament state ts the effect stores is a round built from the
\* render r: its matches pair equal tiers of r.items, lowest tier first
TierOrdered(ts, r) ==
  ts.currentRound > r.tState.currentRound =>
    LET mq == ts.matchQueue
    IN  /\ \A k \in 1..Len(mq) :
             TierOf(r.items, mq[k][1]) = TierOf(r.items, mq[k][2])
        /\ \A j \in 1..Len(mq) : \A k \in j..Len(mq) :
             TierOf(r.items, mq[j][1]) <= TierOf(r.items, mq[k][1])

\* C19: in every round built after round 1 each queued match pairs two
\* participants that had the same loss tier when the round was built, and
\* the queue lists the tier-0 matches before the tier-1 matches before the
\* tier-2 matches.  A round is built by the pair-selection effect, from the
\* collection of the render it runs for, and the tournament state it stores
\* is an update the effect queues.  In one step the effect runs at most
\* twice: first for the previous render, when its run was still due, then
\* for the render of the step.
C19_TierOrderedRounds ==
  [][LET new == {i \in (Len(queue) + 1)..Len(queue') :
                   queue'[i].h = "tState" /\ queue'[i].src = "effect"}
         due == effects.pair /\ tState.running
         r0 == [items |-> items, tState |-> tState]
         r1 == [items |-> items', tState |-> tState']
     IN  \A i \in new :
           TierOrdered(queue'[i].arg,
                       IF due /\ \A j \in new : i <= j THEN r0 ELSE r1)]_vars

\* C19 witness: after a verdict the effect has built the next round, which
\* queues matches of two different loss tiers
C19_Witness ==
  /\ Running /\ lastEvent = "match"
  /\ \E i \in 1..Len(queue) :
       LET u == queue[i]
       IN  /\ u.h = "tState" /\ u.src = "effect"
           /\ u.arg.currentRound = tState.currentRound + 1
           /\ Len(u.arg.matchQueue) >= 2
           /\ TierOf(items, u.arg.matchQueue[1][1])
                # TierOf(items, u.arg.matchQueue[Len(u.arg.matchQueue)][1])

\* C20: resolving a tournament match removes exactly the head of
\* matchQueue, adds 1 to the winner's wins and 1 to the loser's losses, and
\* leaves unchanged every item's rating and comparisons, every other item's
\* wins and losses, the coverage map, seed and currentRound.
C20_MatchFrame ==
  [][lastEvent' = "match" =>
       LET e == history'[1]
           w == e.winnerId
           l == IF e.aId = w THEN e.bId ELSE e.aId
       IN  /\ tState.matchQueue # <<>>
           /\ tState'.matchQueue = Tail(tState.matchQueue)
           /\ Len(items') = Len(items)
           /\ \A i \in 1..Len(items) :
                /\ items'[i].id = items[i].id
                /\ items'[i].rating = items[i].rating
                /\ items'[i].comparisons = items[i].comparisons
                /\ items'[i].wins = items[i].wins + (IF items[i].id = w THEN 1 ELSE 0)
                /\ items'[i].losses = items[i].losses + (IF items[i].id = l THEN 1 ELSE 0)
           /\ seenPairs' = seenPairs
           /\ tState'.seed = tState.seed
           /\ tState'.currentRound = tState.currentRound]_vars

\* the displayed pair is the head match of the queue
ShowsHeadMatch(ts, pair) ==
  (ts.running /\ pair # <<>>) =>
    (ts.matchQueue # <<>> /\ ts.matchQueue[1] = <<pair[1].id, pair[2].id>>)

\* C21: while a tournament is running a displayed pair is exactly the head
\* match of matchQueue, also after deletions, uploads and a ratings reset,
\* so the match a verdict dequeues is the match between the two ids the
\* verdict was given on.
C21_DisplayedPairIsHead ==
  [][/\ ShowsHeadMatch(tState, currentPair)
     /\ ShowsHeadMatch(tState', currentPair')
     /\ lastEvent' = "match" =>
          /\ tState.matchQueue # <<>>
          /\ tState.matchQueue[1] = <<history'[1].aId, history'[1].bId>>
          /\ tState.matchQueue[1] = <<currentPair[1].id, currentPair[2].id>>]_vars

\* C23: in every reachable state both ids of every coverage-map key and
\* both items of the displayed pair belong to the current item collection.
C23_KeysAndPairInCollection ==
  /\ \A k \in DOMAIN seenPairs : k[1] \in Ids(items) /\ k[2] \in Ids(items)
  /\ currentPair # <<>> =>
       (currentPair[1].id \in Ids(items) /\ currentPair[2].id \in Ids(items))

C22_RemovedStaysRemoved == \A x \in removedIds : x \notin Ids(items)
====
